---- MODULE Spec2Model ----
(***************************************************************************)
(* go-cover-coveragepy: a Go coverage profile is parsed line by line,      *)
(* folded into per-module Items and a Total, and written as an HTML        *)
(* report.  The model follows the later of the two revisions contained in  *)
(* src/main.go (lines 481-988).                                            *)
(*                                                                         *)
(* Strings are sequences of one-character strings, so that strings.Split,  *)
(* strings.ReplaceAll and strconv.Atoi are computed as the library         *)
(* computes them.  A uint holds a natural number; the inputs keep          *)
(* StartLine <= EndLine, so no subtraction of the fold wraps.              *)
(***************************************************************************)
EXTENDS Integers, Sequences, FiniteSets, TLC

\* ------------------------------------------------------------------ bounds
\* most records the scan loop reads from one profile
MaxScan == 2
\* most blocks of a parsed profile handed to the summarize loop
MaxRecords == 3

\* ----------------------------------------------------------------- strings
Digits == <<"0", "1", "2", "3", "4", "5", "6", "7", "8", "9">>

DigitSet == {Digits[i] : i \in 1..10}

DigitVal(c) == (CHOOSE i \in 1..10 : Digits[i] = c) - 1

\* strings.Index: position of the first instance of sep in s, 0 when absent
Index(s, sep) ==
  LET hits == {i \in 1..(Len(s) - Len(sep) + 1) : SubSeq(s, i, i + Len(sep) - 1) = sep}
  IN  IF hits = {} THEN 0 ELSE CHOOSE i \in hits : \A j \in hits : i <= j

RECURSIVE Split(_, _)
\* strings.Split for a non-empty separator: the pieces between its instances
Split(s, sep) ==
  LET i == Index(s, sep)
  IN  IF i = 0
      THEN <<s>>
      ELSE <<SubSeq(s, 1, i - 1)>> \o Split(SubSeq(s, i + Len(sep), Len(s)), sep)

\* strings.ReplaceAll for one-character old and new
ReplaceAll(s, old, new) == [i \in 1..Len(s) |-> IF s[i] = old THEN new ELSE s[i]]

RECURSIVE DigitsValue(_)
DigitsValue(s) ==
  IF s = <<>> THEN 0
  ELSE 10 * DigitsValue(SubSeq(s, 1, Len(s) - 1)) + DigitVal(s[Len(s)])

\* strconv.Atoi: an optional sign and at least one decimal digit, else an error
Atoi(s) ==
  LET signed == s # <<>> /\ s[1] \in {"+", "-"}
      body   == IF signed THEN Tail(s) ELSE s
      ok     == body # <<>> /\ \A i \in 1..Len(body) : body[i] \in DigitSet
  IN  [ok  |-> ok,
       val |-> IF ~ok THEN 0
               ELSE IF signed /\ s[1] = "-" THEN 0 - DigitsValue(body)
               ELSE DigitsValue(body)]

RECURSIVE Itoa(_)
\* decimal text of a natural number (used to write the input lines)
Itoa(n) == IF n < 10 THEN <<Digits[n + 1]>> ELSE Itoa(n \div 10) \o <<Digits[(n % 10) + 1]>>

\* ------------------------------------------------------------------ inputs
ModeSep == <<"m", "o", "d", "e", ":", " ">>

\* first lines a profile may have: a regular header, a line that holds
\* "mode: " but not as its prefix, a line without it, and an empty file
Headers ==
  { ModeSep \o <<"s", "e", "t">>,
    <<"#">> \o ModeSep \o <<"s", "e", "t">>,
    <<"s", "e", "t">>,
    <<>> }

\* module path of go.mod
PackageNames == { <<"m">> }

\* module identifiers: two files of the package, and the package name itself
Modules == { <<"m", "/", "a", ".", "b">>, <<"m", "/", "a", "/", "b">>, <<"m">> }

\* line numbers a record names
LineNumbers == {1, 2}

\* third field of a record
Flags == { <<"0">>, <<"1">>, <<"2">> }

\* <module>:<startLine>.1,<endLine>.9 1 <flag>
MkLine(m, sl, el, flag) ==
  m \o <<":">> \o Itoa(sl) \o <<".", "1", ",">> \o Itoa(el) \o <<".", "9", " ", "1", " ">> \o flag

\* line spans with StartLine <= EndLine
Spans == { sp \in LineNumbers \X LineNumbers : sp[1] <= sp[2] }

ValidLines == { MkLine(m, sp[1], sp[2], fl) : m \in Modules, sp \in Spans, fl \in Flags }

\* record lines that break the grammar: no ':', no ',', no '.', two fields
\* only, a non-numeric column, a non-numeric line
MalformedLines ==
  { <<"c", "1", ".", "1", ",", "2", ".", "9", " ", "1", " ", "1">>,
    <<"c", ":", "1", ".", "1", " ", "1", " ", "1">>,
    <<"c", ":", "1", ",", "2", ".", "9", " ", "1", " ", "1">>,
    <<"c", ":", "1", ".", "1", ",", "2", ".", "9", " ", "1">>,
    <<"c", ":", "1", ".", "x", ",", "2", ".", "9", " ", "1", " ", "1">>,
    <<"c", ":", "y", ".", "1", ",", "2", ".", "9", " ", "1", " ", "1">> }

RecordLines == ValidLines \cup MalformedLines

\* ------------------------------------------------------------ record parser
ZeroCov ==
  [Module |-> <<>>, StartLine |-> 0, StartColumn |-> 0, EndLine |-> 0, EndColumn |-> 0,
   Reached |-> FALSE]

\* the flag test of the record parser
ReachedFlag(word) == word = <<"1">>

\* One iteration of the scan loop on one line.  kind is "ok" (a block was
\* built), "error" (strconv.Atoi failed: main prints and returns) or "panic"
\* (an index past the end of a split result).
ParseRecord(l) ==
  LET words     == Split(l, <<" ">>)
      infos     == Split(words[1], <<":">>)
      startEnds == Split(infos[2], <<",">>)
      s         == Split(startEnds[1], <<".">>)
      e         == Split(startEnds[2], <<".">>)
      res(k, c) == [kind |-> k, cov |-> c]
  IN  IF Len(infos) < 2 THEN res("panic", ZeroCov)
      ELSE IF Len(words) < 3 THEN res("panic", ZeroCov)
      ELSE IF Len(startEnds) < 2 THEN res("panic", ZeroCov)
      ELSE IF ~Atoi(s[1]).ok THEN res("error", ZeroCov)
      ELSE IF Len(s) < 2 THEN res("panic", ZeroCov)
      ELSE IF ~Atoi(s[2]).ok THEN res("error", ZeroCov)
      ELSE IF ~Atoi(e[1]).ok THEN res("error", ZeroCov)
      ELSE IF Len(e) < 2 THEN res("panic", ZeroCov)
      ELSE IF ~Atoi(e[2]).ok THEN res("error", ZeroCov)
      ELSE res("ok", [Module      |-> infos[1],
                      StartLine   |-> Atoi(s[1]).val,
                      StartColumn |-> Atoi(s[2]).val,
                      EndLine     |-> Atoi(e[1]).val,
                      EndColumn   |-> Atoi(e[2]).val,
                      Reached     |-> ReachedFlag(words[3])])

\* --------------------------------------------------------------- aggregator
ZeroItem ==
  [Percentage |-> 0, Reached |-> 0, Missed |-> 0, Excluded |-> 0, Statement |-> 0,
   ReachedRanges |-> <<>>, MissedRanges |-> <<>>, All |-> 0,
   DisplayFile |-> <<>>, HtmlLink |-> <<>>]

\* Item.IsReached
IsReached(item, num) ==
  \E k \in 1..Len(item.ReachedRanges) :
    item.ReachedRanges[k].Start <= num /\ item.ReachedRanges[k].End >= num

\* Item.IsMissed
IsMissed(item, num) ==
  \E k \in 1..Len(item.MissedRanges) :
    item.MissedRanges[k].Start <= num /\ item.MissedRanges[k].End >= num

DotHtml == <<".", "h", "t", "m", "l">>

\* flattenFilename
flattenFilename(filename) == ReplaceAll(ReplaceAll(filename, ".", "_"), "/", "_")

\* stands for 1<<63, which a uint holds and the integers of the checker do
\* not; only its being larger than 100 is used
HugeUint == 2^30

\* uint(NaN): the language leaves the result to the implementation; the
\* builds give 0 or 1<<63
NaNToUint == {0, HugeUint}

\* (numerator, denominator) pairs, denominator <= 30, numerator < 3 *
\* denominator, whose float64 quotient times 100 lies just above the exact
\* integer, so that math.Ceil gives one more than the exact ceiling
FloatCeilExcess ==
  { <<11, 5>>, <<11, 10>>, <<22, 10>>, <<33, 15>>, <<11, 20>>, <<22, 20>>, <<44, 20>>,
    <<49, 20>>, <<7, 25>>, <<14, 25>>, <<28, 25>>, <<55, 25>>, <<56, 25>>, <<33, 30>>,
    <<66, 30>> }

\* uint(math.Ceil(float64(num) / float64(den) * 100)); with den = 0 the float
\* is NaN (or +Inf), which no uint represents
CeilPercentage(num, den, nan) ==
  IF den = 0
  THEN nan
  ELSE ((100 * num + den - 1) \div den) + (IF <<num, den>> \in FloatCeilExcess THEN 1 ELSE 0)

\* Fold with the span appended to both range lists
FoldIntoBothLists(a, cov) ==
  LET r == [Start |-> cov.StartLine, End |-> cov.EndLine]
  IN  IF cov.Reached
      THEN [a EXCEPT !.reachedNum = @ + (cov.EndLine - cov.StartLine),
                     !.reachedRanges = Append(@, r),
                     !.missedRanges = Append(@, r)]
      ELSE [a EXCEPT !.missedNum = @ + (cov.EndLine - cov.StartLine),
                     !.reachedRanges = Append(@, r),
                     !.missedRanges = Append(@, r)]

\* if cov.Reached { reachedNum += ...; reachedRanges = append(...) } else { ... }
Fold(a, cov) ==
  IF cov.Reached
  THEN [a EXCEPT !.reachedNum = @ + (cov.EndLine - cov.StartLine),
                 !.reachedRanges = Append(@, [Start |-> cov.StartLine, End |-> cov.EndLine])]
  ELSE [a EXCEPT !.missedNum = @ + (cov.EndLine - cov.StartLine),
                 !.missedRanges = Append(@, [Start |-> cov.StartLine, End |-> cov.EndLine])]

\* allNum = lastCov.EndLine; if !lastCov.Reached { allNum += 1 }
WithAllNum(a) ==
  [a EXCEPT !.allNum = a.lastCov.EndLine + (IF a.lastCov.Reached THEN 0 ELSE 1)]

\* the counts, percentage and names written into items[lastModule]
Counted(item, a, nan) ==
  [item EXCEPT !.Reached = a.reachedNum,
               !.Missed = a.missedNum,
               !.Statement = a.reachedNum + a.missedNum,
               !.All = a.allNum,
               !.Percentage = CeilPercentage(a.reachedNum, a.reachedNum + a.missedNum, nan),
               !.DisplayFile = a.lastModule,
               !.HtmlLink = flattenFilename(a.lastModule) \o DotHtml]

\* the range lists attached to items[lastModule]
Ranged(item, a) ==
  [item EXCEPT !.ReachedRanges = a.reachedRanges, !.MissedRanges = a.missedRanges]

\* first block of the profile: lastModule == ""
FirstBlock(a, its, cov, nan) ==
  LET a1 == [Fold(a, cov) EXCEPT !.lastModule = cov.Module]
      a2 == [a1 EXCEPT !.totalReachedNum = @ + a1.reachedNum,
                       !.totalMissedNum = @ + a1.missedNum,
                       !.totalAllNum = @ + a1.allNum]
  IN  [agg |-> a2, items |-> (cov.Module :> Counted(ZeroItem, a1, nan)) @@ its]

\* first block of another module: the old module is closed, the new one opened
ModuleChange(a, its, cov, nan) ==
  LET a1   == WithAllNum(a)
      its1 == [its EXCEPT ![a.lastModule] = Ranged(Counted(@, a1, nan), a1)]
      a2   == [a1 EXCEPT !.totalReachedNum = @ + a1.reachedNum,
                         !.totalMissedNum = @ + a1.missedNum,
                         !.totalStatementNum = @ + a1.reachedNum + a1.missedNum,
                         !.totalAllNum = @ + a1.allNum,
                         !.reachedNum = 0,
                         !.missedNum = 0,
                         !.reachedRanges = <<>>,
                         !.missedRanges = <<>>]
  IN  [agg |-> Fold(a2, cov), items |-> (cov.Module :> ZeroItem) @@ its1]

\* a further block of the current module
SameModule(a, its, cov) == [agg |-> Fold(a, cov), items |-> its]

\* one iteration of the summarize loop
Summarize(a, its, cov, nan) ==
  LET r == IF a.lastModule = <<>> THEN FirstBlock(a, its, cov, nan)
           ELSE IF a.lastModule # cov.Module THEN ModuleChange(a, its, cov, nan)
           ELSE SameModule(a, its, cov)
  IN  [agg |-> [r.agg EXCEPT !.lastModule = cov.Module, !.lastCov = cov], items |-> r.items]

\* "care of last item", run once after the loop on an existing items[lastModule]
LastItem(a, its, nan) ==
  LET a1   == WithAllNum(a)
      a2   == Fold(a1, a1.lastCov)
      its1 == [its EXCEPT ![a.lastModule] = Ranged(Counted(@, a1, nan), a2)]
      a3   == [a2 EXCEPT !.totalReachedNum = @ + a2.reachedNum,
                         !.totalMissedNum = @ + a2.missedNum,
                         !.totalStatementNum = @ + a2.reachedNum + a2.missedNum,
                         !.totalAllNum = @ + a2.allNum]
  IN  [agg |-> a3, items |-> its1]

\* ordinal order of the characters in use
Alphabet ==
  <<" ", "#", "+", "-", ".", "/", "0", "1", "2", "3", "4", "5", "6", "7", "8", "9", ":", "_",
    "a", "b", "c", "d", "e", "h", "i", "l", "m", "n", "o", "s", "t", "x", "y">>

Ord(c) == CHOOSE k \in 1..Len(Alphabet) : Alphabet[k] = c

\* s < t for Go strings
StrLess(s, t) ==
  \E k \in 1..(Len(t)) :
    /\ k <= Len(s) + 1
    /\ \A j \in 1..(k - 1) : s[j] = t[j]
    /\ (k = Len(s) + 1 \/ Ord(s[k]) < Ord(t[k]))

\* the values of the map as a slice sorted by DisplayFile
SortedItems(its) ==
  LET vals == {its[m] : m \in DOMAIN its}
      n    == Cardinality(vals)
  IN  IF n = 0 THEN <<>>
      ELSE CHOOSE sq \in [1..n -> vals] :
             /\ {sq[k] : k \in 1..n} = vals
             /\ \A k \in 1..(n - 1) : ~StrLess(sq[k + 1].DisplayFile, sq[k].DisplayFile)

\* the Summary handed to writeFiles; Excluded is a uint difference that wraps
\* below zero, held here as its signed residue
MakeSummary(md, a, its, nan) ==
  [Mode  |-> md,
   Total |-> [All        |-> a.totalAllNum,
              Reached    |-> a.totalReachedNum,
              Missed     |-> a.totalMissedNum,
              Excluded   |-> a.totalAllNum - a.totalReachedNum - a.totalMissedNum,
              Percentage |-> CeilPercentage(a.totalReachedNum, a.totalStatementNum, nan)],
   Items |-> SortedItems(its)]

\* --------------------------------------------------------------- writeFiles
IndexHtml == <<"i", "n", "d", "e", "x", ".", "h", "t", "m", "l">>

StyleFiles ==
  << <<"c", "o", "v", "e", "r", "a", "g", "e", "_", "h", "t", "m", "l", ".", "j", "s">>,
     <<"s", "t", "y", "l", "e", ".", "c", "s", "s">>,
     <<"b", "o", "o", "t", "s", "t", "r", "a", "p", ".", "m", "i", "n", ".", "c", "s", "s">>,
     <<"b", "o", "o", "t", "s", "t", "r", "a", "p", ".", "b", "u", "n", "d", "l", "e", ".", "m", "i", "n", ".", "j", "s">> >>

GitIgnore == <<".", "g", "i", "t", "i", "g", "n", "o", "r", "e">>

\* The source path of an item: the part of DisplayFile after the package
\* name, without a leading '/'.  filename[0] panics on an empty name.
SourceFilename(displayFile, packageName) ==
  LET tmp  == Split(displayFile, packageName)
      name == IF Len(tmp) > 1 THEN tmp[2] ELSE displayFile
  IN  [panic |-> name = <<>>,
       name  |-> IF name # <<>> /\ name[1] = "/" THEN Tail(name) ELSE name]

\* number of lines getLines returns for a readable source file
SourceLines == Cardinality(LineNumbers)

\* the class of source line num in the page of item v
CoverTypeOf(v, num) ==
  IF IsReached(v, num) THEN "run"
  ELSE IF IsMissed(v, num) THEN "mis show_mis"
  ELSE "pln"

\* the FileSummary rendered into the page of item v
FilePage(v) == [Item |-> v.DisplayFile, Lines |-> [n \in 1..SourceLines |-> CoverTypeOf(v, n)]]

\* -------------------------------------------------------------------- state
VARIABLES
  pc,            \* position in main / writeFiles
  outcome,       \* "running", "exit0" (main returns), "exit1" (os.Exit(1)), "panic"
  fatal,         \* history: the fatal error that occurred, "none" if none did
  nan,           \* what uint(NaN) gives in this build
  packageName,   \* result of parseGoMod
  firstLine,     \* first line of the profile
  mode,
  line,          \* the line of the current scan iteration
  coverResults,  \* blocks parsed so far
  idx,           \* position of the summarize loop in coverResults
  agg,           \* the accumulators of the summarize loop
  items,         \* map[string]*Item
  summary,       \* the Summary, <<>> before it is built
  pending,       \* keys of items the range loop of writeFiles has not visited
  styleIdx,      \* next entry of styleFiles
  files,         \* content of the output directory, by file name
  failed         \* history: the items whose page could not be written

vars ==
  <<pc, outcome, fatal, nan, packageName, firstLine, mode, line, coverResults, idx, agg,
    items, summary, pending, styleIdx, files, failed>>

ZeroAgg ==
  [lastModule |-> <<>>, lastCov |-> ZeroCov,
   reachedNum |-> 0, totalReachedNum |-> 0,
   missedNum |-> 0, totalMissedNum |-> 0,
   totalStatementNum |-> 0,
   reachedRanges |-> <<>>, missedRanges |-> <<>>,
   allNum |-> 0, totalAllNum |-> 0]

EmptyMap == [m \in {} |-> ZeroItem]

Init ==
  /\ pc = "open"
  /\ outcome = "running"
  /\ fatal = "none"
  /\ nan \in NaNToUint
  /\ packageName = <<>>
  /\ firstLine = <<>>
  /\ mode = <<>>
  /\ line = <<>>
  /\ coverResults = <<>>
  /\ idx = 1
  /\ agg = ZeroAgg
  /\ items = EmptyMap
  /\ summary = <<>>
  /\ pending = {}
  /\ styleIdx = 1
  /\ files = EmptyMap
  /\ failed = {}

\* exit status of the process: 0 when main returns, 1 from os.Exit(1), 2 when
\* a panic ends it
ExitStatus(how) == IF how = "exit0" THEN 0 ELSE IF how = "exit1" THEN 1 ELSE 2

\* the run ends at the current position
End(how, why) ==
  /\ outcome' = how
  /\ fatal' = why

Running(at) == pc = at /\ outcome = "running"

\* ------------------------------------------------------------------ actions
\* os.Open of the profile fails: usage is printed and main returns
OpenFails ==
  /\ Running("open")
  /\ End("exit0", "open")
  /\ UNCHANGED <<pc, nan, packageName, firstLine, mode, line, coverResults, idx, agg, items,
                 summary, pending, styleIdx, files, failed>>

\* os.Open succeeds and parseGoMod reads go.mod, or panics
OpenProfile ==
  /\ Running("open")
  /\ \/ \E p \in PackageNames :
          /\ packageName' = p
          /\ pc' = "header"
          /\ UNCHANGED <<outcome, fatal>>
     \/ /\ End("panic", "gomod")
        /\ UNCHANGED <<pc, packageName>>
  /\ UNCHANGED <<nan, firstLine, mode, line, coverResults, idx, agg, items, summary, pending,
                 styleIdx, files, failed>>

\* the first line: modeStr := strings.Split(firstLine, "mode: "); mode := modeStr[1]
ReadHeader ==
  /\ Running("header")
  /\ \E h \in Headers :
       LET modeStr == Split(h, ModeSep)
       IN  /\ firstLine' = h
           /\ IF Len(modeStr) < 2
              THEN End("panic", "header") /\ UNCHANGED <<pc, mode>>
              ELSE mode' = modeStr[2] /\ pc' = "scan" /\ UNCHANGED <<outcome, fatal>>
  /\ UNCHANGED <<nan, packageName, line, coverResults, idx, agg, items, summary, pending,
                 styleIdx, files, failed>>

\* one iteration of the scan loop
ScanRecord ==
  /\ Running("scan")
  /\ Len(coverResults) < MaxScan
  /\ \E l \in RecordLines :
       LET r == ParseRecord(l)
       IN  /\ line' = l
           /\ IF r.kind = "ok"
              THEN coverResults' = Append(coverResults, r.cov) /\ UNCHANGED <<outcome, fatal>>
              ELSE /\ End(IF r.kind = "panic" THEN "panic" ELSE "exit0", "record")
                   /\ UNCHANGED coverResults
  /\ UNCHANGED <<pc, nan, packageName, firstLine, mode, idx, agg, items, summary, pending,
                 styleIdx, files, failed>>

\* scanner.Scan() returns false: the loop ends
ScanEnd ==
  /\ Running("scan")
  /\ pc' = "summarize"
  /\ line' = <<>>
  /\ UNCHANGED <<outcome, fatal, nan, packageName, firstLine, mode, coverResults, idx, agg,
                 items, summary, pending, styleIdx, files, failed>>

\* one iteration of the summarize loop
SummarizeBlock ==
  /\ Running("summarize")
  /\ idx <= Len(coverResults)
  /\ LET r == Summarize(agg, items, coverResults[idx], nan)
     IN  agg' = r.agg /\ items' = r.items
  /\ idx' = idx + 1
  /\ UNCHANGED <<pc, outcome, fatal, nan, packageName, firstLine, mode, line, coverResults,
                 summary, pending, styleIdx, files, failed>>

\* after the loop: the last item is closed; items[lastModule] is nil when no
\* block was read, and writing to it panics
CloseLastItem ==
  /\ Running("summarize")
  /\ idx > Len(coverResults)
  /\ IF agg.lastModule \in DOMAIN items
     THEN LET r == LastItem(agg, items, nan)
          IN  /\ agg' = r.agg
              /\ items' = r.items
              /\ pc' = "summary"
              /\ UNCHANGED <<outcome, fatal>>
     ELSE /\ End("panic", "nilitem")
          /\ UNCHANGED <<pc, agg, items>>
  /\ UNCHANGED <<nan, packageName, firstLine, mode, line, coverResults, idx, summary, pending,
                 styleIdx, files, failed>>

\* the sorted item list and the Summary
BuildSummary ==
  /\ Running("summary")
  /\ summary' = MakeSummary(mode, agg, items, nan)
  /\ pc' = "mkdir"
  /\ UNCHANGED <<outcome, fatal, nan, packageName, firstLine, mode, line, coverResults, idx,
                 agg, items, pending, styleIdx, files, failed>>

\* writeFiles: the output directory exists or is made, or os.Mkdir fails
MakeDir ==
  /\ Running("mkdir")
  /\ \/ pc' = "index" /\ UNCHANGED <<outcome, fatal>>
     \/ End("exit1", "mkdir") /\ UNCHANGED pc
  /\ UNCHANGED <<nan, packageName, firstLine, mode, line, coverResults, idx, agg, items,
                 summary, pending, styleIdx, files, failed>>

\* writeFiles: index.html
WriteIndex ==
  /\ Running("index")
  /\ \/ /\ files' = (IndexHtml :> [Summary |-> summary]) @@ files
        /\ pc' = "files"
        /\ pending' = DOMAIN items
        /\ UNCHANGED <<outcome, fatal>>
     \/ /\ End("exit1", "index")
        /\ UNCHANGED <<pc, pending, files>>
  /\ UNCHANGED <<nan, packageName, firstLine, mode, line, coverResults, idx, agg, items,
                 summary, styleIdx, failed>>

\* writeFiles: one iteration of the loop over items, in the map's order
WriteFile ==
  /\ Running("files")
  /\ \E m \in pending :
       LET v   == items[m]
           src == SourceFilename(v.DisplayFile, packageName)
       IN  \/ /\ src.panic
              /\ End("panic", "filename")
              /\ failed' = failed \cup {m}
              /\ UNCHANGED <<pending, files>>
           \/ /\ ~src.panic
              /\ \E why \in {"source", "render"} : End("exit1", why)
              /\ failed' = failed \cup {m}
              /\ UNCHANGED <<pending, files>>
           \/ /\ ~src.panic
              /\ files' = (v.HtmlLink :> FilePage(v)) @@ files
              /\ pending' = pending \ {m}
              /\ UNCHANGED <<outcome, fatal, failed>>
  /\ UNCHANGED <<pc, nan, packageName, firstLine, mode, line, coverResults, idx, agg, items,
                 summary, styleIdx>>

\* FilesDone with the loop left while items are still to be visited
FilesDoneEarly ==
  /\ Running("files")
  /\ pc' = "styles"
  /\ UNCHANGED <<outcome, fatal, nan, packageName, firstLine, mode, line, coverResults, idx,
                 agg, items, summary, pending, styleIdx, files, failed>>

\* writeFiles: the loop over items is over
FilesDone ==
  /\ Running("files")
  /\ pending = {}
  /\ pc' = "styles"
  /\ UNCHANGED <<outcome, fatal, nan, packageName, firstLine, mode, line, coverResults, idx,
                 agg, items, summary, pending, styleIdx, files, failed>>

\* writeFiles: one style file
WriteStyle ==
  /\ Running("styles")
  /\ styleIdx <= Len(StyleFiles)
  /\ \/ /\ files' = (StyleFiles[styleIdx] :> [Static |-> styleIdx]) @@ files
        /\ styleIdx' = styleIdx + 1
        /\ UNCHANGED <<outcome, fatal>>
     \/ /\ End("exit1", "asset")
        /\ UNCHANGED <<styleIdx, files, failed>>
  /\ UNCHANGED <<pc, nan, packageName, firstLine, mode, line, coverResults, idx, agg, items,
                 summary, pending, failed>>

\* writeFiles: .gitignore, then writeFiles and main return
WriteGitIgnore ==
  /\ Running("styles")
  /\ styleIdx > Len(StyleFiles)
  /\ \/ /\ files' = (GitIgnore :> [Static |-> 0]) @@ files
        /\ End("exit0", "none")
     \/ /\ End("exit1", "asset")
        /\ UNCHANGED files
  /\ pc' = "gitignore"
  /\ UNCHANGED <<nan, packageName, firstLine, mode, line, coverResults, idx, agg, items,
                 summary, pending, styleIdx, failed>>

Next ==
  \/ OpenFails
  \/ OpenProfile
  \/ ReadHeader
  \/ ScanRecord
  \/ ScanEnd
  \/ SummarizeBlock
  \/ CloseLastItem
  \/ BuildSummary
  \/ MakeDir
  \/ WriteIndex
  \/ WriteFile
  \/ FilesDone
  \/ WriteStyle
  \/ WriteGitIgnore

Spec == Init /\ [][Next]_vars

\* ------------------------------------------------ the summarize pass alone
\* the blocks the record parser builds from well-formed lines
Blocks == { ParseRecord(l).cov : l \in ValidLines }

BlockSeqs == UNION { [1..n -> Blocks] : n \in 0..MaxRecords }

RegularHeader == ModeSep \o <<"s", "e", "t">>

\* main after the scan loop has ended on a well-formed profile
InitSummarize ==
  /\ pc = "summarize"
  /\ outcome = "running"
  /\ fatal = "none"
  /\ nan \in NaNToUint
  /\ packageName \in PackageNames
  /\ firstLine = RegularHeader
  /\ mode = Split(RegularHeader, ModeSep)[2]
  /\ line = <<>>
  /\ coverResults \in BlockSeqs
  /\ idx = 1
  /\ agg = ZeroAgg
  /\ items = EmptyMap
  /\ summary = <<>>
  /\ pending = {}
  /\ styleIdx = 1
  /\ files = EmptyMap
  /\ failed = {}

NextSummarize ==
  \/ SummarizeBlock
  \/ CloseLastItem
  \/ BuildSummary

SpecSummarize == InitSummarize /\ [][NextSummarize]_vars

\* ---------------------------------------------------------------- properties
\* the summarize pass is over and the Summary is built
Summarized == pc \notin {"open", "header", "scan", "summarize", "summary"}

Ended == outcome # "running"

RECURSIVE SumOver(_, _)
\* sum of f[m] over the elements m of ms
SumOver(f, ms) ==
  IF ms = {} THEN 0
  ELSE LET m == CHOOSE x \in ms : TRUE
       IN  f[m] + SumOver(f, ms \ {m})

\* sums over the module summaries
SumReached == SumOver([m \in DOMAIN items |-> items[m].Reached], DOMAIN items)

SumMissed == SumOver([m \in DOMAIN items |-> items[m].Missed], DOMAIN items)

SumStatement == SumOver([m \in DOMAIN items |-> items[m].Statement], DOMAIN items)

\* each module's blocks are contiguous in the block sequence
Contiguous(crs) ==
  \A i, j, k \in 1..Len(crs) :
    (i < j /\ j < k /\ crs[i].Module = crs[k].Module) => crs[j].Module = crs[i].Module

\* round(num / den * 100), nearest integer, .5 away from zero
RoundPercentage(num, den) == (200 * num + den) \div (2 * den)

\* C1: after aggregation of a profile whose modules are contiguous, the
\* global totals are the sums over the module summaries: Total.Reached is
\* the sum of Reached, Total.Missed the sum of Missed, and the global
\* statement total the sum of the statement totals, no block counted twice.
C1_TotalsAreModuleSums ==
  (Summarized /\ Contiguous(coverResults)) =>
    /\ summary.Total.Reached = SumReached
    /\ summary.Total.Missed = SumMissed
    /\ agg.totalStatementNum = SumStatement

\* C2: for every module of the result, Reached + Missed is the statement
\* total, and Percentage is round(Reached / statementTotal * 100) when the
\* statement total is positive and 0 when it is 0.
C2_ModulePercentageRounded ==
  Summarized =>
    \A m \in DOMAIN items :
      /\ items[m].Reached + items[m].Missed = items[m].Statement
      /\ items[m].Percentage =
           IF items[m].Statement > 0
           THEN RoundPercentage(items[m].Reached, items[m].Statement)
           ELSE 0

\* C3: the global percentage lies in 0..100 and is round(totalReached /
\* totalStatement * 100) over the pooled sums of all modules, 0 when the
\* pooled statement total is 0; for two modules with (reached 1, missed 0)
\* and (reached 0, missed 2) it is 33.
C3_GlobalPercentagePooled ==
  Summarized =>
    LET totalReached   == SumReached
        totalStatement == SumStatement
    IN  /\ summary.Total.Percentage \in 0..100
        /\ summary.Total.Percentage =
             IF totalStatement > 0 THEN RoundPercentage(totalReached, totalStatement) ELSE 0
        /\ \A a, b \in DOMAIN items :
             ( /\ DOMAIN items = {a, b}
               /\ items[a].Reached = 1 /\ items[a].Missed = 0
               /\ items[b].Reached = 0 /\ items[b].Missed = 2 )
             => summary.Total.Percentage = 33

\* a line both predicates of Item hold of
LineInBoth(item, n) == IsReached(item, n) /\ IsMissed(item, n)

HasBlock(m, reached, start, end) ==
  \E i \in 1..Len(coverResults) :
    /\ coverResults[i].Module = m
    /\ coverResults[i].Reached = reached
    /\ coverResults[i].StartLine = start
    /\ coverResults[i].EndLine = end

HasPrefix(s, prefix) == Len(s) >= Len(prefix) /\ SubSeq(s, 1, Len(prefix)) = prefix

\* C5: a profile of the header line only is aggregated without a fault; the
\* module map is empty and the global summary has Reached, Missed, statement
\* total and Percentage 0.
C5_HeaderOnlyProfile ==
  (HasPrefix(firstLine, ModeSep) /\ coverResults = <<>> /\ pc \notin {"open", "header", "scan"}) =>
    /\ outcome # "panic"
    /\ items = EmptyMap
    /\ Summarized =>
         /\ summary.Total.Reached = 0
         /\ summary.Total.Missed = 0
         /\ agg.totalStatementNum = 0
         /\ summary.Total.Percentage = 0

\* third whitespace-separated field of a record line
ThirdField(l) == Split(l, <<" ">>)[3]

\* C6: the block parsed from a record is unreached exactly when the third
\* field is the token "0"; for every other token it is reached.
C6_UnreachedIffZeroFlag ==
  (pc = "scan" /\ ~Ended /\ line \in ValidLines) =>
    coverResults[Len(coverResults)].Reached = (ThirdField(line) # <<"0">>)

\* the first line has been read
HeaderRead == pc \notin {"open", "header"} \/ (pc = "header" /\ Ended)

\* C7: if the header lacks the "mode: " prefix or a record line is
\* malformed, parsing stops at that line and the run ends with no module
\* summary produced and no file written to the output directory.
C7_MalformedInputEndsRun ==
  ( \/ (HeaderRead /\ ~HasPrefix(firstLine, ModeSep))
    \/ (pc = "scan" /\ line \in MalformedLines) )
  => /\ Ended
     /\ items = EmptyMap
     /\ summary = <<>>
     /\ files = EmptyMap

\* the fatal errors: profile not opened, malformed header, malformed record,
\* output directory not created, index render failed, static asset not written
FatalErrors == {"open", "header", "record", "mkdir", "index", "asset"}

\* C8: every fatal error ends the run with a non-zero exit status.
C8_FatalErrorExitsNonZero ==
  (Ended /\ fatal \in FatalErrors) => ExitStatus(outcome) # 0

\* C9: the output filename function is injective on the module identifiers
\* of one profile: distinct modules get distinct file names, so no two
\* modules are written to the same file.
C9_FilenamesDistinct ==
  Summarized =>
    \A m1, m2 \in DOMAIN items :
      m1 # m2 => items[m1].HtmlLink # items[m2].HtmlLink

\* the stylesheets, scripts and the ignore file are in the output directory
StaticAssetsWritten ==
  /\ \A k \in 1..Len(StyleFiles) : StyleFiles[k] \in DOMAIN files
  /\ GitIgnore \in DOMAIN files

\* C10: a failure while rendering one module's file (its source file is
\* unreadable, or the template write fails) prevents neither the rendering
\* of any other module's file nor the writing of the static assets.
C10_RenderFailureIsolated ==
  (Ended /\ fatal \in {"source", "render"}) =>
    /\ \A m \in DOMAIN items \ failed : items[m].HtmlLink \in DOMAIN files
    /\ StaticAssetsWritten

\* the statement count of a block: the second field of the record line the
\* block was parsed from
StatementCountOf(cov) ==
  LET l == CHOOSE x \in ValidLines : ParseRecord(x).cov = cov
  IN  Atoi(Split(l, <<" ">>)[2]).val

RECURSIVE SumStatementCount(_, _, _)
\* sum of the statement counts of the blocks of module m in crs with this flag
SumStatementCount(crs, m, reached) ==
  IF crs = <<>> THEN 0
  ELSE (IF Head(crs).Module = m /\ Head(crs).Reached = reached
        THEN StatementCountOf(Head(crs)) ELSE 0)
       + SumStatementCount(Tail(crs), m, reached)

\* C11: for every module M, after aggregation Reached(M) is the sum of the
\* statement counts of M's reached blocks and Missed(M) the sum of the
\* statement counts of M's unreached blocks; for a module of one reached
\* block of 2 statements and one unreached block of 1 statement that is
\* reached 2, missed 1, statement total 3, percentage 67.
C11_CountsAreStatementSums ==
  Summarized =>
    \A m \in DOMAIN items :
      /\ items[m].Reached = SumStatementCount(coverResults, m, TRUE)
      /\ items[m].Missed = SumStatementCount(coverResults, m, FALSE)
      /\ (items[m].Reached = 2 /\ items[m].Missed = 1) =>
           (items[m].Statement = 3 /\ items[m].Percentage = 67)

RECURSIVE SpansOf(_, _, _)
\* the {StartLine, EndLine} of the blocks of module m in crs with this flag,
\* in the order of crs
SpansOf(crs, m, reached) ==
  IF crs = <<>> THEN <<>>
  ELSE (IF Head(crs).Module = m /\ Head(crs).Reached = reached
        THEN << [Start |-> Head(crs).StartLine, End |-> Head(crs).EndLine] >>
        ELSE <<>>)
       \o SpansOf(Tail(crs), m, reached)

\* C12: for every module M of a profile whose modules are contiguous, the
\* first and the last group included, after aggregation ReachedRanges(M) is
\* exactly the sequence of spans of M's reached blocks in input order and
\* MissedRanges(M) that of M's unreached blocks: one entry per block, none
\* missing, none duplicated, none of another module.
C12_RangesAreBlockSpans ==
  (Summarized /\ Contiguous(coverResults)) =>
    \A m \in DOMAIN items :
      /\ items[m].ReachedRanges = SpansOf(coverResults, m, TRUE)
      /\ items[m].MissedRanges = SpansOf(coverResults, m, FALSE)

\* the global accumulators of the summarize loop
Totals(a) == <<a.totalReachedNum, a.totalMissedNum>>

\* the counts and percentage of module m in its, those of the zero Item when
\* its has no entry for m
CountsOf(its, m) ==
  LET item == IF m \in DOMAIN its THEN its[m] ELSE ZeroItem
  IN  <<item.Reached, item.Missed, item.Statement, item.Percentage>>

\* the group of agg.lastModule ends at this point of the fold: the next block
\* is of another module, or there is no next block
GroupEnds ==
  /\ agg.lastModule # <<>>
  /\ \/ idx > Len(coverResults)
     \/ coverResults[idx].Module # agg.lastModule

\* C13: during the fold over a profile whose modules are contiguous, each
\* group is finalized once, when the first block of another module is read
\* or when input ends, and never earlier: a step writes the counts or the
\* percentage of a module summary only when that module's group ends, a
\* step adds to the global accumulators only when a group ends and then adds
\* the counts it writes into the summary, and the summary of a module whose
\* group has ended does not change again.
C13_GroupFinalizedOnce ==
  [][ (pc = "summarize" /\ Contiguous(coverResults)) =>
        /\ \A m \in DOMAIN items' :
             CountsOf(items', m) # CountsOf(items, m) => (GroupEnds /\ m = agg.lastModule)
        /\ Totals(agg') # Totals(agg) => GroupEnds
        /\ (GroupEnds /\ agg.lastModule \in DOMAIN items') =>
             /\ agg'.totalReachedNum = agg.totalReachedNum + items'[agg.lastModule].Reached
             /\ agg'.totalMissedNum = agg.totalMissedNum + items'[agg.lastModule].Missed
        /\ \A m \in DOMAIN items :
             m # agg.lastModule => (m \in DOMAIN items' /\ items'[m] = items[m])
    ]_vars

\* writeFiles has entered the loop over items
RenderingStarted == pc \in {"files", "styles", "gitignore"}

\* the items whose iteration of the loop has begun: those taken out of the
\* map's order, and the one the loop stopped at
Dispatched == IF RenderingStarted THEN (DOMAIN items \ pending) \cup failed ELSE {}

\* the items whose iteration has come to its end with the page written
Rendered ==
  { m \in Dispatched : m \notin failed /\ m \notin pending /\ items[m].HtmlLink \in DOMAIN files }

\* the items whose iteration has come to its end, page written or not
Completed == Rendered \cup failed

\* C14: the run ends with exit status 0 after rendering was started only
\* when every per-file render has completed: at that point the render of
\* every module of the module map has been started and has finished, and
\* the number of completed renders is the number of dispatched ones.
C14_ExitAfterAllRendersComplete ==
  (outcome = "exit0" /\ RenderingStarted) =>
    /\ pending = {}
    /\ Dispatched = DOMAIN items
    /\ Rendered = DOMAIN items
    /\ Cardinality(Completed) = Cardinality(Dispatched)

\* C14 witness: a run over two modules has ended with exit status 0 after
\* both pages were rendered
C14_Witness ==
  /\ outcome = "exit0"
  /\ RenderingStarted
  /\ Cardinality(DOMAIN items) = 2
  /\ Rendered = DOMAIN items

====
